---- MODULE Spec2Model ----
(***************************************************************************)
(* The PID velocity controller of vmas/simulator/velocity_controller.py.   *)
(*                                                                         *)
(* Numbers.  The controller computes in binary floating point (Python      *)
(* floats and torch tensors).  A number is modelled as an integer count of *)
(* quanta of 2^-FracBits, and every arithmetic operation rounds its exact  *)
(* result to Prec significant bits, ties to even: a binary floating-point  *)
(* format with gradual underflow, of reduced precision and without         *)
(* overflow.  ToNum(n, d) is the number nearest to n/d.                    *)
(*                                                                         *)
(* Values.  A Python float is a value of shape <<>>, a torch tensor of     *)
(* batch x dim entries a value of shape <<batch, dim>>; data holds the     *)
(* entries in row-major order.  None, and an attribute never assigned, is  *)
(* the empty sequence; a present optional x is <<x>>.                      *)
(***************************************************************************)
EXTENDS Integers, Sequences, FiniteSets, TLC

\* Significant bits of a number.
Prec == 4
\* Bits after the binary point of the smallest quantum.
FracBits == 3
\* process_force() calls per run of the model.
MaxTicks == 3

Pow2(n) == 2 ^ n

\* 1.0
Unit == Pow2(FracBits)

Abs(x) == IF x < 0 THEN -x ELSE x

\* n/d (n >= 0, d > 0) rounded to the nearest integer, ties to even.
RoundHalfEven(n, d) ==
    LET q == n \div d
        r == n % d
    IN  IF 2 * r < d THEN q
        ELSE IF 2 * r > d THEN q + 1
        ELSE IF q % 2 = 0 THEN q ELSE q + 1

\* The exponent of n/d (n >= 0, d > 0): the least e >= 0 with n/d < 2^(Prec+e).
RECURSIVE Expo(_, _, _)
Expo(n, d, e) == IF n < Pow2(Prec + e) * d THEN e ELSE Expo(n, d, e + 1)

\* n/d quanta (n >= 0, d > 0) rounded to a multiple of 2^e.
RoundTo(n, d, e) == RoundHalfEven(n, d * Pow2(e)) * Pow2(e)

\* n/d quanta (d > 0) rounded to Prec significant bits.
Fl(n, d) ==
    IF n < 0 THEN -RoundTo(-n, d, Expo(-n, d, 0)) ELSE RoundTo(n, d, Expo(n, d, 0))

\* The number nearest to the rational n/d (d > 0).
ToNum(n, d) == Fl(n * Unit, d)

FAdd(a, b) == Fl(a + b, 1)
FSub(a, b) == Fl(a - b, 1)
FMul(a, b) == Fl(a * b, Unit)
\* b # 0
FDiv(a, b) == IF b < 0 THEN Fl(-(a * Unit), -b) ELSE Fl(a * Unit, b)

\* The largest integer r in lo..hi-1 with r * r <= n, by bisection
\* (lo * lo <= n < hi * hi).
RECURSIVE ISqrt(_, _, _)
ISqrt(n, lo, hi) ==
    IF hi - lo <= 1 THEN lo
    ELSE LET mid == (lo + hi) \div 2
         IN  IF mid * mid <= n THEN ISqrt(n, mid, hi) ELSE ISqrt(n, lo, mid)

\* sqrt(a) for a >= 0, rounded to Prec significant bits.
\* The least integer r with r * r >= n (n >= 0).
CeilSqrtFrom(n, r) == IF r * r = n THEN r ELSE r + 1
CeilSqrt(n) == CeilSqrtFrom(n, ISqrt(n, 0, Pow2(15)))

\* n >= 0 rounded toward zero to Prec significant bits.
TruncTo(n, e) == (n \div Pow2(e)) * Pow2(e)
Trunc(n) == TruncTo(n, Expo(n, 1, 0))

----------------------------------------------------------------------------
(* Values: Python floats and torch tensors, with broadcasting.             *)

PyFloat(x) == [shape |-> <<>>, data |-> <<x>>]
\* (xs \o <<>> is xs, as a sequence)
Tensor(shape, xs) == [shape |-> shape, data |-> xs \o <<>>]
IsTensor(v) == v.shape # <<>>

\* x op y for op one of "+", "-", "*", "/".
Arith(op, x, y) ==
    IF op = "+" THEN FAdd(x, y)
    ELSE IF op = "-" THEN FSub(x, y)
    ELSE IF op = "*" THEN FMul(x, y)
    ELSE FDiv(x, y)

\* a op b elementwise, a float broadcast over a tensor.
Map2(op, a, b) ==
    IF ~IsTensor(a) /\ ~IsTensor(b) THEN PyFloat(Arith(op, a.data[1], b.data[1]))
    ELSE IF ~IsTensor(a)
        THEN Tensor(b.shape, [i \in DOMAIN b.data |-> Arith(op, a.data[1], b.data[i])])
    ELSE IF ~IsTensor(b)
        THEN Tensor(a.shape, [i \in DOMAIN a.data |-> Arith(op, a.data[i], b.data[1])])
    ELSE Tensor(a.shape, [i \in DOMAIN a.data |-> Arith(op, a.data[i], b.data[i])])

\* Entry b of the batch, along the last dimension.
Row(t, b) == SubSeq(t.data, (b - 1) * t.shape[2] + 1, b * t.shape[2])

\* The single-entry value a controller of batch entry b alone would hold.
Slice(v, b) == IF IsTensor(v) THEN Tensor(<<1, v.shape[2]>>, Row(v, b)) ELSE v

Min(a, b) == IF a < b THEN a ELSE b
Max(a, b) == IF a > b THEN a ELSE b

\* torch.clamp(t, lo, hi), elementwise (also of a Python float).
clamp(t, lo, hi) ==
    [shape |-> t.shape,
     data |-> [i \in DOMAIN t.data |-> Min(Max(t.data[i], lo), hi)] \o <<>>]

\* vmas.simulator.utils.clamp_tensor: every element to [-limit, +limit].
clamp_tensor(t, limit) == clamp(t, -limit, limit)

\* x[1]^2 + ... + x[n]^2, exactly (in squared quanta).
RECURSIVE SumSq(_, _)
SumSq(x, n) == IF n = 0 THEN 0 ELSE SumSq(x, n - 1) + x[n] * x[n]

\* The squared Euclidean norm of a batch entry.
NormSq(x) == SumSq(x, Len(x))

\* x * max_norm / norm, rounded toward zero; norm_up is the norm rounded up.
ScaleDown(x, max_norm, norm_up) ==
    IF x < 0 THEN -Trunc(((-x) * max_norm) \div norm_up)
    ELSE Trunc((x * max_norm) \div norm_up)

\* The batch entry that holds element i of t.
RowOf(t, i) == Row(t, ((i - 1) \div t.shape[2]) + 1)

\* vmas.simulator.utils.clamp_with_norm: a batch entry whose Euclidean norm
\* exceeds max_norm is scaled to magnitude max_norm, its direction preserved;
\* the others are kept.  The scaling rounds toward zero: the magnitude is capped.
clamp_with_norm(t, max_norm) ==
    Tensor(t.shape,
           [i \in DOMAIN t.data |->
               IF NormSq(RowOf(t, i)) > max_norm * max_norm
               THEN ScaleDown(t.data[i], max_norm, CeilSqrt(NormSq(RowOf(t, i))))
               ELSE t.data[i]])

----------------------------------------------------------------------------
(* class VelocityController.  self is the record of the object's           *)
(* attributes; an operation that mutates self returns the new self.        *)

None == <<>>
Some(x) == <<x>>

\* __init__ with the parallel form's derivative gain multiplied by kP instead of
\* divided by it.
VelocityController_kd(agent, dt, ctrl_params, pid_form) ==
    LET ctrl_gain == ctrl_params[1]
        integralTs ==
            IF pid_form = "standard" THEN ctrl_params[2]
            ELSE IF ctrl_params[2] = 0 THEN 0
            ELSE FDiv(ctrl_gain, ctrl_params[2])
        derivativeTs ==
            IF pid_form = "standard" THEN ctrl_params[3]
            ELSE FMul(ctrl_params[3], ctrl_gain)
        fmax == IF agent.max_f # None THEN agent.max_f[1] ELSE ToNum(2, 1)
    IN  IF pid_form \notin {"standard", "parallel"} THEN [raised |-> TRUE, self |-> None]
        ELSE [raised |-> FALSE,
              self |-> Some(
                [dt |-> dt,
                 ctrl_gain |-> ctrl_gain,
                 integralTs |-> integralTs,
                 derivativeTs |-> derivativeTs,
                 use_integrator |-> integralTs # 0,
                 integrator_windup_cutoff |->
                    IF integralTs = 0 THEN None
                    ELSE Some(FDiv(FMul(FMul(ToNum(1, 2), fmax), integralTs),
                                   FMul(dt, ctrl_gain))),
                 accum_errs |-> PyFloat(0),
                 prev_err |-> PyFloat(0)])]

\* __init__ that takes any unknown form for the standard one instead of raising.
VelocityController_lenient(agent, dt, ctrl_params, pid_form) ==
    LET ctrl_gain == ctrl_params[1]
        integralTs ==
            IF pid_form # "parallel" THEN ctrl_params[2]
            ELSE IF ctrl_params[2] = 0 THEN 0
            ELSE FDiv(ctrl_gain, ctrl_params[2])
        derivativeTs ==
            IF pid_form # "parallel" THEN ctrl_params[3]
            ELSE FDiv(ctrl_params[3], ctrl_gain)
        fmax == IF agent.max_f # None THEN agent.max_f[1] ELSE ToNum(2, 1)
    IN  [raised |-> FALSE,
         self |-> Some(
           [dt |-> dt,
            ctrl_gain |-> ctrl_gain,
            integralTs |-> integralTs,
            derivativeTs |-> derivativeTs,
            use_integrator |-> integralTs # 0,
            integrator_windup_cutoff |->
               IF integralTs = 0 THEN None
               ELSE Some(FDiv(FMul(FMul(ToNum(1, 2), fmax), integralTs),
                              FMul(dt, ctrl_gain))),
            accum_errs |-> PyFloat(0),
            prev_err |-> PyFloat(0)])]

\* __init__: the object built, or raised = TRUE and no object.
\* (ctrl_params[1] is the source's ctrl_params[0]: sequences start at 1.)
VelocityController(agent, dt, ctrl_params, pid_form) ==
    LET ctrl_gain == ctrl_params[1]
        known == pid_form \in {"standard", "parallel"}
        integralTs ==
            IF pid_form = "standard" THEN ctrl_params[2]
            ELSE IF ctrl_params[2] = 0 THEN 0
            ELSE FDiv(ctrl_gain, ctrl_params[2])
        derivativeTs ==
            IF pid_form = "standard" THEN ctrl_params[3]
            ELSE FDiv(ctrl_params[3], ctrl_gain)
        fmax == IF agent.max_f # None THEN agent.max_f[1] ELSE ToNum(2, 1)
    IN  IF ~known THEN [raised |-> TRUE, self |-> None]
        ELSE [raised |-> FALSE,
              self |-> Some(
                [dt |-> dt,
                 ctrl_gain |-> ctrl_gain,
                 integralTs |-> integralTs,
                 derivativeTs |-> derivativeTs,
                 use_integrator |-> integralTs # 0,
                 integrator_windup_cutoff |->
                    IF integralTs = 0 THEN None
                    ELSE Some(FDiv(FMul(FMul(ToNum(1, 2), fmax), integralTs),
                                   FMul(dt, ctrl_gain))),
                 accum_errs |-> PyFloat(0),
                 prev_err |-> PyFloat(0)])]

\* reset() that forgets to clear prev_err.
reset_accum_only(self) == [self EXCEPT !.accum_errs = PyFloat(0)]

reset(self) == [self EXCEPT !.accum_errs = PyFloat(0), !.prev_err = PyFloat(0)]

\* Lines 70-71, with accum_errs the clamped sum.
integrated(self, accum_errs) ==
    [self |-> [self EXCEPT !.accum_errs = accum_errs],
     ret |-> Map2("*", PyFloat(FDiv(Unit, self.integralTs)), accum_errs)]

\* The sum of the batch entries, in every batch entry.
RECURSIVE ColumnSum(_, _, _)
ColumnSum(t, d, b) ==
    IF b = 0 THEN 0 ELSE FAdd(ColumnSum(t, d, b - 1), t.data[(b - 1) * t.shape[2] + d])
BatchSum(t) ==
    Tensor(t.shape,
           [i \in DOMAIN t.data |-> ColumnSum(t, ((i - 1) % t.shape[2]) + 1, t.shape[1])])

\* integralError that clamps the value returned but stores the unclamped sum.
integralError_unclamped(self, err) ==
    IF ~self.use_integrator THEN [self |-> self, ret |-> PyFloat(0)]
    ELSE [self |-> [self EXCEPT !.accum_errs =
                       Map2("+", self.accum_errs, Map2("*", PyFloat(self.dt), err))],
          ret |-> Map2("*", PyFloat(FDiv(Unit, self.integralTs)),
                       clamp_tensor(Map2("+", self.accum_errs,
                                         Map2("*", PyFloat(self.dt), err)),
                                    self.integrator_windup_cutoff[1]))]

\* integralError that accumulates the error summed over the batch.
integralError_pooled(self, err) ==
    IF ~self.use_integrator THEN [self |-> self, ret |-> PyFloat(0)]
    ELSE integrated(self,
            clamp_tensor(Map2("+", self.accum_errs,
                              Map2("*", PyFloat(self.dt), BatchSum(err))),
                         self.integrator_windup_cutoff[1]))

\* integralError that returns the integral term without storing the sum.
integralError_unstored(self, err) ==
    IF ~self.use_integrator THEN [self |-> self, ret |-> PyFloat(0)]
    ELSE [self |-> self,
          ret |-> Map2("*", PyFloat(FDiv(Unit, self.integralTs)),
                       clamp_tensor(Map2("+", self.accum_errs,
                                         Map2("*", PyFloat(self.dt), err)),
                                    self.integrator_windup_cutoff[1]))]

\* integralError: the new self and the value returned.
integralError(self, err) ==
    IF ~self.use_integrator THEN [self |-> self, ret |-> PyFloat(0)]
    ELSE integrated(self,
            clamp_tensor(Map2("+", self.accum_errs, Map2("*", PyFloat(self.dt), err)),
                         self.integrator_windup_cutoff[1]))

\* rateError that keeps prev_err when the error is zero.
rateError_skipzero(self, err) ==
    [self |-> IF \A i \in DOMAIN err.data : err.data[i] = 0 THEN self
              ELSE [self EXCEPT !.prev_err = err],
     ret |-> Map2("/",
                  Map2("*", PyFloat(self.derivativeTs), Map2("-", err, self.prev_err)),
                  PyFloat(self.dt))]

\* rateError that updates prev_err only when the derivative term is in use.
rateError_guarded(self, err) ==
    [self |-> IF self.derivativeTs = 0 THEN self ELSE [self EXCEPT !.prev_err = err],
     ret |-> Map2("/",
                  Map2("*", PyFloat(self.derivativeTs), Map2("-", err, self.prev_err)),
                  PyFloat(self.dt))]

\* rateError: the new self and the value returned.
rateError(self, err) ==
    LET e == Map2("/",
                  Map2("*", PyFloat(self.derivativeTs), Map2("-", err, self.prev_err)),
                  PyFloat(self.dt))
    IN  [self |-> [self EXCEPT !.prev_err = err], ret |-> e]

\* Lines 89-92 with the two clamps in the other order.
clamp_to_limits_swapped(agent, u) ==
    LET u2 == IF agent.f_range # None
              THEN clamp(u, -agent.f_range[1], agent.f_range[1]) ELSE u
    IN  IF agent.max_f # None THEN clamp_with_norm(u2, agent.max_f[1]) ELSE u2

\* Lines 89-92: the force u clamped to the agent's limits.
clamp_to_limits(agent, u) ==
    LET u2 == IF agent.max_f # None THEN clamp_with_norm(u, agent.max_f[1]) ELSE u
    IN  IF agent.f_range # None
        THEN clamp(u2, -agent.f_range[1], agent.f_range[1]) ELSE u2

\* Lines 85-94 writing the force to agent.state.vel instead of agent.action.u.
apply_control_vel(self, agent, err, ie, re, u) ==
    [self |-> re.self,
     agent |-> [agent EXCEPT !.state.vel = clamp_to_limits(agent, u)],
     err |-> err, iterm |-> ie.ret, dterm |-> re.ret, raw |-> u]

\* Lines 85-94, with ie and re the results of integralError and rateError:
\* the new self and agent, and the intermediate values of the call.
apply_control(self, agent, err, ie, re, u) ==
    [self |-> re.self,
     agent |-> [agent EXCEPT !.action.u = clamp_to_limits(agent, u)],
     err |-> err, iterm |-> ie.ret, dterm |-> re.ret, raw |-> u]

control_terms(self, agent, err, ie, re) ==
    apply_control(self, agent, err, ie, re,
        Map2("*",
             Map2("*", PyFloat(self.ctrl_gain),
                  Map2("+", Map2("+", err, ie.ret), re.ret)),
             PyFloat(agent.mass)))

control_error(self, agent, err, ie) ==
    control_terms(self, agent, err, ie, rateError(ie.self, err))

\* process_force
process_force(self, agent) ==
    control_error(self, agent, Map2("-", agent.action.u, agent.state.vel),
                  integralError(self, Map2("-", agent.action.u, agent.state.vel)))

----------------------------------------------------------------------------
(* The state machine: one agent, the caller's constructor arguments, the   *)
(* controller built from them, and the calls made on it.                   *)

VARIABLES
    agent,      \* the agent: action.u, state.vel, mass, max_f, f_range
    args,       \* the constructor arguments: dt, ctrl_params, pid_form
    pc,         \* "new": not yet constructed; "ready"; "failed": __init__ raised
    ctrl,       \* None, or Some(self): the controller object
    op,         \* the operation executed last
    calls,      \* process_force() calls so far
    sinceReset, \* process_force() calls since __init__ or the last reset()
    last,       \* None, or Some(the last process_force() call): the agent and
                \* self it started from, its error, integral term, derivative
                \* term and unclamped force, and prior: None, or Some(the error
                \* of the call before it), if no reset() came in between
    solo,       \* per batch entry: a single-entry controller and its own agent
    twin        \* None, or Some(the parallel-form controller and its own agent)

vars == <<agent, args, pc, ctrl, op, calls, sinceReset, last, solo, twin>>

\* The shape of agent.action.u and agent.state.vel: batch entries x dimensions.
VelShape == <<2, 2>>
Batch == 1..VelShape[1]

Vel(a, b, c, d) ==
    Tensor(VelShape, <<ToNum(a, 1), ToNum(b, 1), ToNum(c, 1), ToNum(d, 1)>>)

\* What the world writes before a tick: the desired and the current velocity.
Observations ==
    { [u |-> Vel(1, 0, 0, 1),  vel |-> Vel(1, 0, 0, 1)],
      [u |-> Vel(3, 4, 1, 0),  vel |-> Vel(0, 0, 0, 0)],
      [u |-> Vel(-1, 2, 3, 4), vel |-> Vel(1, 0, 0, 0)] }

NewAgent(mass, max_f, f_range) ==
    [action |-> [u |-> Vel(0, 0, 0, 0)], state |-> [vel |-> Vel(0, 0, 0, 0)],
     mass |-> mass, max_f |-> max_f, f_range |-> f_range]

Agents ==
    { NewAgent(ToNum(1, 1), None, None),
      NewAgent(ToNum(2, 1), Some(ToNum(5, 1)), None),
      NewAgent(ToNum(1, 1), None, Some(ToNum(7, 2))),
      NewAgent(ToNum(2, 1), Some(ToNum(5, 1)), Some(ToNum(7, 2))) }

\* dt > 0 and kP > 0: __init__ divides by both.
ArgSet ==
    [dt : {ToNum(1, 2)},
     ctrl_params : {<<kP, p1, p2>> : kP \in {ToNum(1, 1), ToNum(3, 1)},
                                      p1 \in {0, ToNum(1, 2), ToNum(3, 1)},
                                      p2 \in {0, ToNum(1, 4)}},
     pid_form : {"standard", "parallel", "pi"}]

SliceAgent(a, b) ==
    [a EXCEPT !.action.u = Slice(@, b), !.state.vel = Slice(@, b)]

\* An instance: a controller object and the agent it holds.
Construct(a, dt, ctrl_params, pid_form) ==
    [self |-> VelocityController(a, dt, ctrl_params, pid_form).self, agent |-> a]

Called(r) == [self |-> Some(r.self), agent |-> r.agent]
Call(inst) == Called(process_force(inst.self[1], inst.agent))

Observe(a, o) == [a EXCEPT !.action.u = o.u, !.state.vel = o.vel]

\* The parallel-form parameters [kP, kP/Ti, kP*Td] of standard-form [kP, Ti, Td].
ToParallel(ctrl_params) ==
    <<ctrl_params[1], FDiv(ctrl_params[1], ctrl_params[2]),
      FMul(ctrl_params[1], ctrl_params[3])>>

HasTwin == args.pid_form = "standard" /\ args.ctrl_params[2] # 0

Init ==
    /\ agent \in Agents
    /\ args \in ArgSet
    /\ pc = "new"
    /\ ctrl = None
    /\ op = "none"
    /\ calls = 0
    /\ sinceReset = 0
    /\ last = None
    /\ solo = [b \in Batch |-> [self |-> None, agent |-> SliceAgent(agent, b)]]
    /\ twin = None

\* c = VelocityController(agent, dt, ctrl_params, pid_form)
New ==
    /\ pc = "new"
    /\ \E r \in {VelocityController(agent, args.dt, args.ctrl_params, args.pid_form)} :
           /\ pc' = IF r.raised THEN "failed" ELSE "ready"
           /\ ctrl' = r.self
           /\ solo' = IF r.raised THEN solo
                      ELSE [b \in Batch |->
                              Construct(solo[b].agent, args.dt, args.ctrl_params,
                                        args.pid_form)]
           /\ twin' = IF r.raised \/ ~HasTwin THEN None
                      ELSE Some(Construct(agent, args.dt,
                                          ToParallel(args.ctrl_params), "parallel"))
    /\ op' = "__init__"
    /\ UNCHANGED <<agent, args, calls, sinceReset, last>>

\* The world writes the next desired velocity and the current velocity.
Step(o) ==
    /\ pc = "ready"
    /\ op # "step"
    /\ calls < MaxTicks
    /\ agent' = Observe(agent, o)
    /\ solo' = [b \in Batch |->
                  [solo[b] EXCEPT !.agent = Observe(@, [u |-> Slice(o.u, b),
                                                         vel |-> Slice(o.vel, b)])]]
    /\ twin' = IF twin = None THEN None
               ELSE Some([twin[1] EXCEPT !.agent = Observe(@, o)])
    /\ op' = "step"
    /\ UNCHANGED <<args, pc, ctrl, calls, sinceReset, last>>

\* c.process_force(), once per tick
ProcessForce ==
    /\ pc = "ready"
    /\ op = "step"
    /\ \E r \in {process_force(ctrl[1], agent)} :
           /\ ctrl' = Some(r.self)
           /\ agent' = r.agent
           /\ last' = Some([agent |-> agent, self |-> ctrl[1], err |-> r.err,
                            iterm |-> r.iterm, dterm |-> r.dterm, raw |-> r.raw,
                            prior |-> IF sinceReset = 0 THEN None
                                      ELSE Some(last[1].err)])
    /\ solo' = [b \in Batch |-> Call(solo[b])]
    /\ twin' = IF twin = None THEN None ELSE Some(Call(twin[1]))
    /\ op' = "process_force"
    /\ calls' = calls + 1
    /\ sinceReset' = sinceReset + 1
    /\ UNCHANGED <<args, pc>>

\* c.reset()
Reset ==
    /\ pc = "ready"
    /\ ctrl' = Some(reset(ctrl[1]))
    /\ solo' = [b \in Batch |-> [solo[b] EXCEPT !.self = Some(reset(@[1]))]]
    /\ twin' = IF twin = None THEN None
               ELSE Some([twin[1] EXCEPT !.self = Some(reset(@[1]))])
    /\ op' = "reset"
    /\ sinceReset' = 0
    /\ UNCHANGED <<agent, args, pc, calls, last>>

Next ==
    \/ New
    \/ \E o \in Observations : Step(o)
    \/ ProcessForce
    \/ Reset

Spec == Init /\ [][Next]_vars

----------------------------------------------------------------------------
(* Properties.                                                             *)

self == ctrl[1]
call == last[1]
JustCalled == pc = "ready" /\ op = "process_force"

AllZero(v) == \A i \in DOMAIN v.data : v.data[i] = 0
\* Equal as numbers, a float broadcast over a tensor.
SameValues(a, b) == AllZero(Map2("-", a, b))

NonZero(v) == ~AllZero(v)

----------------------------------------------------------------------------
\* C1, as claimed: process_force() changes only the force it writes and the
\* controller's accum_errs and prev_err; the agent's desired velocity
\* (agent.action.u, as read by the call), current velocity, mass, max_f and
\* f_range and the controller's gain, time constants, windup cutoff and dt are
\* the same after the call as before it.
C1_DesiredVelocityKept ==
    [][op' = "process_force" =>
        /\ agent'.action.u = agent.action.u
        /\ agent'.state = agent.state
        /\ agent'.mass = agent.mass
        /\ agent'.max_f = agent.max_f
        /\ agent'.f_range = agent.f_range]_vars

\* C1, as amended: process_force() changes only agent.action.u, which holds the
\* desired velocity before the call and the force after it, and the
\* controller's accum_errs and prev_err; the agent's current velocity, mass,
\* max_f and f_range and the controller's gain, time constants, use_integrator,
\* windup cutoff and dt are the same after the call as before it.
C1_Frame ==
    [][op' = "process_force" =>
        /\ agent'.state = agent.state
        /\ agent'.mass = agent.mass
        /\ agent'.max_f = agent.max_f
        /\ agent'.f_range = agent.f_range
        /\ \A f \in {"dt", "ctrl_gain", "integralTs", "derivativeTs",
                      "use_integrator", "integrator_windup_cutoff"} :
              ctrl'[1][f] = ctrl[1][f]]_vars

\* A call overwrote the desired velocity with the force and changed both
\* accum_errs and prev_err.
C1_Witness ==
    /\ JustCalled
    /\ agent.action.u # call.agent.action.u
    /\ self.accum_errs # call.self.accum_errs
    /\ self.prev_err # call.self.prev_err

----------------------------------------------------------------------------
\* The agent's max_f if present, else 2.0.
ForceLimit == IF agent.max_f # None THEN agent.max_f[1] ELSE ToNum(2, 1)

\* 0.5 * force_limit * integral_time_constant / (dt * kP)
WindupLimit ==
    FDiv(FMul(FMul(ToNum(1, 2), ForceLimit), self.integralTs),
         FMul(self.dt, self.ctrl_gain))

\* accum_errs + dt * err of the last call, before the clamp.
Unclamped ==
    Map2("+", call.self.accum_errs, Map2("*", PyFloat(self.dt), call.err))

\* C2: with the integrator in use (kP > 0, integralTs > 0, dt > 0), after
\* construction, reset() and every process_force() call each slot of the stored
\* accum_errs has magnitude at most the windup limit
\* 0.5 * force_limit * integralTs / (dt * kP), force_limit being max_f if
\* present and else 2.0.
C2_WindupBound ==
    pc = "ready" /\ self.use_integrator =>
        /\ self.ctrl_gain > 0 /\ self.integralTs > 0 /\ self.dt > 0
        /\ self.integrator_windup_cutoff = Some(WindupLimit)
        /\ \A i \in DOMAIN self.accum_errs.data :
              Abs(self.accum_errs.data[i]) <= WindupLimit

\* The same nonzero error twice in a row, the sum beyond the limit, and the
\* stored accum_errs pinned at the limit.
C2_Witness ==
    /\ JustCalled
    /\ self.use_integrator
    /\ call.prior = Some(call.err)
    /\ \E i \in DOMAIN self.accum_errs.data :
          /\ Abs(Unclamped.data[i]) > WindupLimit
          /\ Abs(self.accum_errs.data[i]) = WindupLimit
          /\ Abs(call.self.accum_errs.data[i]) = WindupLimit

----------------------------------------------------------------------------
\* The controller a fresh construction with the same parameters gives.
Fresh == VelocityController(agent, args.dt, args.ctrl_params, args.pid_form).self[1]

\* C3: after reset() the controller is in the state of a freshly constructed
\* one, the first process_force() call after a reset() yields the integral
\* term, derivative term, force, accum_errs and prev_err that the first call
\* of a freshly constructed controller yields on the same agent state, and
\* reset() twice leaves the state of reset() once.
C3_ResetIsFresh ==
    /\ pc = "ready" /\ sinceReset = 0 => self = Fresh
    /\ pc = "ready" => reset(reset(self)) = reset(self) /\ reset(self) = Fresh
    /\ JustCalled /\ sinceReset = 1 =>
          \A f \in {process_force(Fresh, call.agent)} :
              /\ self = f.self
              /\ agent = f.agent
              /\ call.iterm = f.iterm
              /\ call.dterm = f.dterm

\* The first call after a reset() that followed earlier calls, with integral
\* and derivative terms that are not zero.
C3_Witness ==
    /\ JustCalled
    /\ sinceReset = 1
    /\ calls >= 2
    /\ NonZero(call.iterm)
    /\ NonZero(call.dterm)

----------------------------------------------------------------------------
\* C4: at every tick the force, accum_errs and prev_err of each entry of the
\* batched controller equal those of a single-entry controller with the same
\* parameters that was fed that entry's inputs alone.
C4_BatchIndependence ==
    pc = "ready" =>
        \A b \in Batch :
            /\ solo[b].self[1].accum_errs = Slice(self.accum_errs, b)
            /\ solo[b].self[1].prev_err = Slice(self.prev_err, b)
            /\ solo[b].agent.action.u = Slice(agent.action.u, b)

\* Two entries with different errors in two calls in a row, with integrator,
\* derivative term and norm clamp in use, and different forces.
C4_Witness ==
    /\ JustCalled
    /\ call.prior # None
    /\ Row(call.prior[1], 1) # Row(call.prior[1], 2)
    /\ Row(call.err, 1) # Row(call.err, 2)
    /\ self.use_integrator
    /\ self.derivativeTs # 0
    /\ agent.max_f # None
    /\ Row(self.accum_errs, 1) # Row(self.accum_errs, 2)
    /\ Row(agent.action.u, 1) # Row(agent.action.u, 2)

----------------------------------------------------------------------------
\* The twin has the controller's attributes and state, and wrote the same force.
SameAsTwin == twin[1].self[1] = self /\ twin[1].agent = agent

\* Converting [kP, Ti, Td] to the parallel form and back gives Ti and Td again.
RoundTripExact ==
    /\ ToParallel(args.ctrl_params)[2] # 0
    /\ FDiv(args.ctrl_params[1], ToParallel(args.ctrl_params)[2]) = args.ctrl_params[2]
    /\ FDiv(ToParallel(args.ctrl_params)[3], args.ctrl_params[1]) = args.ctrl_params[3]

----------------------------------------------------------------------------
\* mass * kP * (error + integral term + derivative term) of the last call.
Force ==
    Map2("*",
         Map2("*", PyFloat(call.self.ctrl_gain),
              Map2("+", Map2("+", call.err, call.iterm), call.dterm)),
         PyFloat(agent.mass))

NormClamp(u) == IF agent.max_f # None THEN clamp_with_norm(u, agent.max_f[1]) ELSE u
RangeClamp(u) ==
    IF agent.f_range # None THEN clamp(u, -agent.f_range[1], agent.f_range[1]) ELSE u

\* C6: the force written is the range clamp of the norm clamp of
\* mass * kP * (error + integral term + derivative term), a clamp being skipped
\* when its limit is absent; so the norm of every entry is at most max_f and
\* the magnitude of every component at most f_range.
C6_NormThenRange ==
    JustCalled =>
        /\ call.raw = Force
        /\ agent.action.u = RangeClamp(NormClamp(Force))
        /\ agent.max_f # None =>
              \A b \in Batch :
                  NormSq(Row(agent.action.u, b)) <= agent.max_f[1] * agent.max_f[1]
        /\ agent.f_range # None =>
              \A i \in DOMAIN agent.action.u.data :
                  Abs(agent.action.u.data[i]) <= agent.f_range[1]

\* A force beyond both limits for which the two orders differ.
C6_Witness ==
    /\ JustCalled
    /\ agent.max_f # None
    /\ agent.f_range # None
    /\ \E b \in Batch : NormSq(Row(call.raw, b)) > agent.max_f[1] * agent.max_f[1]
    /\ \E i \in DOMAIN call.raw.data : Abs(call.raw.data[i]) > agent.f_range[1]
    /\ RangeClamp(NormClamp(call.raw)) # NormClamp(RangeClamp(call.raw))
    /\ agent.action.u = RangeClamp(NormClamp(call.raw))

----------------------------------------------------------------------------
\* The call before the last one, if any since the last reset(), had zero error.
NoErrorBefore == call.prior = None \/ AllZero(call.prior[1])

\* C7: a call with zero error leaves the values of accum_errs unchanged; if
\* the call before it had zero error too (or it is the first since
\* construction or reset()) its derivative term is zero and the force is the
\* clamped mass * kP * (0 + integral term), which is zero when accum_errs is: from a
\* fresh or reset controller the force is zero at every zero-error tick.
C7_ZeroError ==
    JustCalled /\ AllZero(call.err) =>
        /\ SameValues(self.accum_errs, call.self.accum_errs)
        /\ NoErrorBefore =>
              /\ AllZero(call.dterm)
              /\ agent.action.u =
                    RangeClamp(NormClamp(
                        Map2("*",
                             Map2("*", PyFloat(self.ctrl_gain),
                                  Map2("+", call.err, call.iterm)),
                             PyFloat(agent.mass))))
              /\ AllZero(call.self.accum_errs) => AllZero(agent.action.u)
        /\ sinceReset = 1 => AllZero(agent.action.u)

\* The second zero-error call in a row after an error that left a residue in
\* accum_errs: the derivative gain is in use and the force is not zero.
C7_Witness ==
    /\ JustCalled
    /\ AllZero(call.err)
    /\ call.prior # None
    /\ AllZero(call.prior[1])
    /\ self.derivativeTs # 0
    /\ NonZero(self.accum_errs)
    /\ NonZero(agent.action.u)

----------------------------------------------------------------------------
\* C8, as claimed: in every state of a constructed controller accum_errs and
\* prev_err have the shape of the agent's current velocity.
C8_AlwaysVelocityShape ==
    pc = "ready" =>
        /\ self.accum_errs.shape = agent.state.vel.shape
        /\ self.prev_err.shape = agent.state.vel.shape

\* C8, as amended: after construction and after reset() accum_errs and
\* prev_err are the float 0.0; once process_force() has been called since,
\* prev_err has the shape of the agent's current velocity, and so has
\* accum_errs if the integrator is in use, while it stays the float 0.0 if not.
C8_Shapes ==
    pc = "ready" =>
        /\ sinceReset = 0 =>
              self.accum_errs = PyFloat(0) /\ self.prev_err = PyFloat(0)
        /\ sinceReset > 0 =>
              /\ self.prev_err.shape = agent.state.vel.shape
              /\ self.use_integrator =>
                    self.accum_errs.shape = agent.state.vel.shape
              /\ ~self.use_integrator => self.accum_errs = PyFloat(0)

\* After a call with the integrator in use: both have the velocity's shape.
C8_Witness ==
    /\ JustCalled
    /\ self.use_integrator
    /\ IsTensor(self.accum_errs)
    /\ IsTensor(self.prev_err)
    /\ NonZero(self.accum_errs)

----------------------------------------------------------------------------
\* C9: after every process_force() call prev_err is the error
\* agent.action.u - agent.state.vel that the call read, whatever derivativeTs
\* is, and the derivative term of the call is
\* derivativeTs * (error - prev_err before the call) / dt, prev_err before the
\* call being the error of the call before it.
C9_PrevErrTracksError ==
    JustCalled =>
        /\ call.err = Map2("-", call.agent.action.u, call.agent.state.vel)
        /\ self.prev_err = call.err
        /\ call.prior # None => call.self.prev_err = call.prior[1]
        /\ call.prior = None => call.self.prev_err = PyFloat(0)
        /\ call.dterm =
              Map2("/",
                   Map2("*", PyFloat(self.derivativeTs),
                        Map2("-", call.err, call.self.prev_err)),
                   PyFloat(self.dt))

\* Two calls in a row with different errors and derivativeTs = 0.
C9_Witness ==
    /\ JustCalled
    /\ self.derivativeTs = 0
    /\ call.prior # None
    /\ call.prior[1] # call.err
    /\ NonZero(call.err)

----------------------------------------------------------------------------
\* C10: construction raises exactly when pid_form is neither "standard" nor
\* "parallel"; then there is no controller, neither reset() nor process_force()
\* follows, and the agent is as it was.
C10_InvalidForm ==
    /\ pc = "failed" <=> op # "none" /\ args.pid_form \notin {"standard", "parallel"}
    /\ pc = "ready" <=> op # "none" /\ args.pid_form \in {"standard", "parallel"}
    /\ pc = "ready" <=> ctrl # None
    /\ pc = "failed" =>
          /\ op = "__init__"
          /\ calls = 0
          /\ agent \in Agents
          /\ \A b \in Batch : solo[b].self = None

\* A construction that raised.
C10_Witness == pc = "failed" /\ args.pid_form = "pi" /\ ctrl = None
====
